---- MODULE Spec2Model ----
(***************************************************************************)
(* Model of the supervisory core of the iotedge-k8s daemon:                *)
(*   edgelet/edgelet-core/src/watchdog/kubernetes.rs  (module watchdog)    *)
(*   edgelet/iotedged-proxy/src/workload.rs           (workload service)   *)
(* The Module Runtime, the Identity Provider and the shutdown signal are   *)
(* external collaborators: they are modelled as an environment whose       *)
(* behaviour follows the interfaces the specification lists.               *)
(***************************************************************************)
EXTENDS Integers, Sequences, FiniteSets, TLC

\* ------------------------------------------------------------------ bounds
\* Longest history of module states the environment goes through.
MaxHist == 3
\* Largest configured maximum retry count.
MaxRetries == 2

\* ------------------------------------------------------------------ inputs
ModuleIds == {"edgeAgent", "edgeHub"}
ModuleSpecs == {"specA", "specB"}
\* ModuleState as reported by the Module Runtime Interface.
ModuleStates == {"NotFound", "Created", "Running", "Stopped", "Failed"}
\* Operations of the Module Runtime and Identity capabilities.
RuntimeOps == {"get", "create", "start", "stop", "remove", "identity"}
\* A call event: the call being issued, or its completion.
CallEvents == [ev : {"call", "ret"}, op : RuntimeOps]

VARIABLES
    wd,          \* the Watchdog value: [st, runtime, identity]
    fut,         \* the future run_until returned: "none", "ready", "done"
    result,      \* what that future resolved to: "none", "Ok", "Err"
    args,        \* the arguments run_until was called with
    swFut,       \* the future start_watchdog returned
    swResult,    \* what that future resolved to
    swArgs,      \* the arguments start_watchdog was called with
    shutdown,    \* the shutdown signal: "pending" or "resolved"
    sigPolled,   \* whether the watchdog has polled (observed) the signal
    hist,        \* the states the supervised module has been in, oldest first
    calls,       \* the trace of runtime/identity call events the watchdog issued
    maxRetries,  \* the configured maximum retry count (WatchdogConfig)
    svc,         \* WorkloadService::new: "none", "building", "ready", "failed"
    wanted,      \* the routes the service is to register, in registration order
    inner,       \* the route table of the RouterService, in registration order
    newResult,   \* what the future WorkloadService::new returned resolved to
    newError,    \* why construction failed: "none", "HandlerSetup", "RouteConflict"
    last,        \* the last request dispatched and its response
    entry,       \* the entry point of the daemon that was called
    cli,         \* the command line: [config, eventLogger]
    files,       \* the filesystem: what each configuration file holds
    defaults,    \* what DEFAULTS (config/*/default.yaml) holds
    todo,        \* the statements of the entry point still to run
    ilog,        \* what has been logged, and the logger set up, in order
    reads,       \* the files read with fs::read_to_string, in order
    configStr,   \* config_str of init_common
    parsed,      \* settings of init_common
    iret         \* what the entry point returned

wdVars == <<wd, fut, result, args, swFut, swResult, swArgs, shutdown, sigPolled,
            hist, calls, maxRetries>>

rtVars == <<svc, wanted, inner, newResult, newError, last>>

inVars == <<entry, cli, files, defaults, todo, ilog, reads, configStr, parsed, iret>>

vars == <<wdVars, rtVars, inVars>>

NoArgs == [spec |-> "none", module_id |-> "none"]

\* ------------------------------------------------------------ environment
\* The state the Module Runtime reports now.
moduleState == hist[Len(hist)]

\* The effect of one operation on the module, per the Module Runtime capability.
RuntimeApply(s, op) ==
    CASE op = "create" /\ s \in {"NotFound", "Failed"} -> "Created"
      [] op = "start" /\ s \in {"Created", "Stopped"} -> "Running"
      [] op = "stop" /\ s = "Running" -> "Stopped"
      [] op = "remove" -> "NotFound"
      [] OTHER -> s

RECURSIVE RuntimeAfter(_, _)
\* The module state after the calls of a trace have been served in order.
RuntimeAfter(s, trace) ==
    IF trace = <<>> THEN s
    ELSE RuntimeAfter(
            IF Head(trace).ev = "call" THEN RuntimeApply(s, Head(trace).op) ELSE s,
            Tail(trace))

RECURSIVE CountOp(_, _)
\* How many calls of operation op a trace issues.
CountOp(trace, op) ==
    IF trace = <<>> THEN 0
    ELSE (IF Head(trace).ev = "call" /\ Head(trace).op = op THEN 1 ELSE 0)
         + CountOp(Tail(trace), op)

RECURSIVE InFlightAt(_, _)
\* The number of calls in flight after the first n events of a trace.
InFlightAt(trace, n) ==
    IF n = 0 THEN 0
    ELSE InFlightAt(trace, n - 1) + (IF trace[n].ev = "call" THEN 1 ELSE -1)

\* The largest number of calls in flight at any point of a trace.
MaxInFlight(trace) ==
    IF trace = <<>> THEN 0
    ELSE CHOOSE m \in 0..Len(trace) :
            /\ \E n \in 0..Len(trace) : InFlightAt(trace, n) = m
            /\ \A n \in 0..Len(trace) : InFlightAt(trace, n) <= m

\* ------------------------------------------------------------ the watchdog
\* Watchdog::new: both capabilities are dropped, the fields are PhantomData.
NewWatchdog(runtime, identity) ==
    [st |-> "built", runtime |-> "PhantomData", identity |-> "PhantomData"]

\* A call of op followed by its completion.
Served(op) == <<[ev |-> "call", op |-> op], [ev |-> "ret", op |-> op]>>

\* Faulty variant: the future queries the runtime whenever it is polled, also once
\* the shutdown signal has resolved.
RunUntilCalls_GetAfterSignal(spec, module_id, signal) == Served("get")

\* Faulty variant: the module is recreated and started without looking at its state.
RunUntilCalls_AlwaysRecreate(spec, module_id, signal) ==
    Served("identity") \o Served("create") \o Served("start")

\* Faulty variant: the supervised module is stopped when the watchdog exits.
RunUntilCalls_StopOnExit(spec, module_id, signal) == Served("stop")

\* Faulty variant: start is issued while create is still in flight.
RunUntilCalls_Overlap(spec, module_id, signal) ==
    <<[ev |-> "call", op |-> "create"], [ev |-> "call", op |-> "start"],
      [ev |-> "ret", op |-> "create"], [ev |-> "ret", op |-> "start"]>>

\* Faulty variant: a create call is issued and the future completes without
\* waiting for it.
RunUntilCalls_Abandon(spec, module_id, signal) == <<[ev |-> "call", op |-> "create"]>>

\* The call events the future returned by run_until issues when it is polled.
RunUntilCalls(spec, module_id, signal) == <<>>

\* Faulty variant: a signal that has already resolved is reported as an error.
RunUntilResult_ErrOnResolved(spec, module_id, signal) ==
    IF signal = "resolved" THEN "Err" ELSE "Ok"

\* What the future returned by run_until resolves to: future::ok(()).
RunUntilResult(spec, module_id, signal) == "Ok"

\* Whether the future returned by run_until polls the shutdown signal.
RunUntilPollsSignal == FALSE

\* Whether a poll of the future returned by run_until completes it.
RunUntilReady(signal) == TRUE

\* What the future returned by start_watchdog resolves to: future::ok(()).
StartWatchdogResult(spec, module_id) == "Ok"

\* The call events the future returned by start_watchdog issues when polled.
StartWatchdogCalls(spec, module_id) == <<>>

WdInit ==
    /\ wd = [st |-> "none", runtime |-> "none", identity |-> "none"]
    /\ fut = "none"
    /\ result = "none"
    /\ args = NoArgs
    /\ swFut = "none"
    /\ swResult = "none"
    /\ swArgs = NoArgs
    /\ shutdown = "pending"
    /\ sigPolled = FALSE
    /\ hist \in {<<s>> : s \in ModuleStates}
    /\ calls = <<>>
    /\ maxRetries \in 1..MaxRetries

\* Watchdog::new(runtime, identity)
New ==
    /\ wd.st = "none"
    /\ wd' = NewWatchdog("runtime", "id_mgr")
    /\ UNCHANGED <<fut, result, args, swFut, swResult, swArgs, shutdown, sigPolled,
                   hist, calls, maxRetries, rtVars, inVars>>

\* Watchdog::run_until(self, spec, module_id, shutdown_signal): self is consumed
\* and a future that is already resolved is returned.
RunUntil(spec, module_id) ==
    /\ wd.st = "built"
    /\ fut = "none"
    /\ wd' = [wd EXCEPT !.st = "moved"]
    /\ fut' = "ready"
    /\ args' = [spec |-> spec, module_id |-> module_id]
    /\ UNCHANGED <<result, swFut, swResult, swArgs, shutdown, sigPolled, hist, calls,
                   maxRetries, rtVars, inVars>>

\* The caller polls the future run_until returned.
PollRunUntil ==
    /\ fut = "ready"
    /\ RunUntilReady(shutdown)
    /\ fut' = "done"
    /\ result' = RunUntilResult(args.spec, args.module_id, shutdown)
    /\ sigPolled' = (sigPolled \/ RunUntilPollsSignal)
    /\ calls' = calls \o RunUntilCalls(args.spec, args.module_id, shutdown)
    /\ hist' = [hist EXCEPT ![Len(hist)] =
                    RuntimeAfter(@, RunUntilCalls(args.spec, args.module_id, shutdown))]
    /\ UNCHANGED <<wd, args, swFut, swResult, swArgs, shutdown, maxRetries, rtVars, inVars>>

\* start_watchdog(runtime, id_mgr, spec, module_id)
StartWatchdog(spec, module_id) ==
    /\ swFut = "none"
    /\ swFut' = "ready"
    /\ swArgs' = [spec |-> spec, module_id |-> module_id]
    /\ UNCHANGED <<wd, fut, result, args, swResult, shutdown, sigPolled, hist, calls,
                   maxRetries, rtVars, inVars>>

\* The caller polls the future start_watchdog returned.
PollStartWatchdog ==
    /\ swFut = "ready"
    /\ swFut' = "done"
    /\ swResult' = StartWatchdogResult(swArgs.spec, swArgs.module_id)
    /\ calls' = calls \o StartWatchdogCalls(swArgs.spec, swArgs.module_id)
    /\ hist' = [hist EXCEPT ![Len(hist)] =
                    RuntimeAfter(@, StartWatchdogCalls(swArgs.spec, swArgs.module_id))]
    /\ UNCHANGED <<wd, fut, result, args, swArgs, shutdown, sigPolled, maxRetries, rtVars, inVars>>

\* Environment: the shutdown signal resolves (once).
ShutdownResolves ==
    /\ shutdown = "pending"
    /\ shutdown' = "resolved"
    /\ UNCHANGED <<wd, fut, result, args, swFut, swResult, swArgs, sigPolled, hist,
                   calls, maxRetries, rtVars, inVars>>

\* Environment: the supervised module changes state on its own (it crashes, it is
\* removed, an operator starts it).
ModuleChanges(s) ==
    /\ Len(hist) < MaxHist
    /\ s # moduleState
    /\ hist' = Append(hist, s)
    /\ UNCHANGED <<wd, fut, result, args, swFut, swResult, swArgs, shutdown, sigPolled,
                   calls, maxRetries, rtVars, inVars>>

Next ==
    \/ New
    \/ \E spec \in ModuleSpecs, id \in ModuleIds : RunUntil(spec, id)
    \/ PollRunUntil
    \/ \E spec \in ModuleSpecs, id \in ModuleIds : StartWatchdog(spec, id)
    \/ PollStartWatchdog
    \/ ShutdownResolves
    \/ \E s \in ModuleStates : ModuleChanges(s)

\* ----------------------------------------------------- the route recognizer
\* Most routes one service registers.
MaxRoutes == 3

Lit(v) == [k |-> "lit", v |-> v]
Param(v) == [k |-> "param", v |-> v]

\* The routes a workload service may be asked to register.
Routes == <<
    [method |-> "GET", pattern |-> <<Lit("modules"), Param("name")>>,
     handler |-> "module"],
    [method |-> "GET", pattern |-> <<Lit("modules"), Lit("special")>>,
     handler |-> "special"],
    [method |-> "GET", pattern |-> <<Lit("modules"), Param("name"), Lit("sign")>>,
     handler |-> "sign"],
    [method |-> "GET", pattern |-> <<Lit("modules"), Param("name"), Lit("cert")>>,
     handler |-> "cert"],
    [method |-> "POST", pattern |-> <<Lit("modules"), Param("name"), Lit("sign")>>,
     handler |-> "sign_post"],
    [method |-> "GET", pattern |-> <<Lit("modules"), Param("id")>>,
     handler |-> "module_by_id"] >>

RouteIds == 1..Len(Routes)

Methods == {"GET", "POST"}

\* The request paths, split into segments.
Paths == { <<"modules", "special">>, <<"modules", "foo">>,
           <<"modules", "foo", "sign">>, <<"modules", "foo", "unknown">>,
           <<"modules", "">>, <<"other">> }

\* The registration orders: the sequences of distinct routes, MaxRoutes at most.
RouteLists ==
    { s \in UNION { [1..n -> RouteIds] : n \in 0..MaxRoutes } :
        \A i, j \in 1..Len(s) : i # j => s[i] # s[j] }

\* The number of literal segments of a pattern.
LitCount(pattern) == Cardinality({ i \in 1..Len(pattern) : pattern[i].k = "lit" })

\* A literal segment matches an identical literal, a parameter segment any
\* segment that is not empty.
SegMatches(seg, s) ==
    IF seg.k = "lit" THEN seg.v = s ELSE s # ""

\* A path matches a pattern segment by segment.
Matches(pattern, path) ==
    /\ Len(pattern) = Len(path)
    /\ \A i \in 1..Len(path) : SegMatches(pattern[i], path[i])

\* Faulty variant: every segment is captured, the literal ones too.
Captures_AllSegments(pattern, path) ==
    { <<pattern[i].v, path[i]>> : i \in 1..Len(pattern) }

\* The parameter mapping a path gives a pattern it matches: name to value.
Captures(pattern, path) ==
    { <<pattern[i].v, path[i]>> : i \in { j \in 1..Len(pattern) : pattern[j].k = "param" } }

\* Two patterns of one method match some common path with equal specificity.
Conflict(r1, r2) ==
    /\ r1.method = r2.method
    /\ Len(r1.pattern) = Len(r2.pattern)
    /\ \A i \in 1..Len(r1.pattern) :
          \/ r1.pattern[i].k = "param"
          \/ r2.pattern[i].k = "param"
          \/ r1.pattern[i] = r2.pattern[i]
    /\ LitCount(r1.pattern) = LitCount(r2.pattern)

\* Whether a candidate route is preferred to the best one found so far (0: none).
Prefer_FirstMatch(cand, best) == best = 0

Prefer(cand, best) ==
    \/ best = 0
    \/ LitCount(Routes[cand].pattern) > LitCount(Routes[best].pattern)

RECURSIVE Best(_, _, _, _)
\* The preferred route among those of the table that match, 0 when none does.
Best(table, method, path, best) ==
    IF table = <<>> THEN best
    ELSE LET r == Head(table) IN
         Best(Tail(table), method, path,
              IF /\ Routes[r].method = method
                 /\ Matches(Routes[r].pattern, path)
                 /\ Prefer(r, best)
              THEN r ELSE best)

\* The recognizer's answer for (method, path).
Recognize(table, method, path) ==
    LET b == Best(table, method, path, 0) IN
    IF b # 0
    THEN [status |-> "match", route |-> b, handler |-> Routes[b].handler,
          params |-> Captures(Routes[b].pattern, path)]
    ELSE IF \E i \in 1..Len(table) : Matches(Routes[table[i]].pattern, path)
    THEN [status |-> "method_not_allowed", route |-> 0, handler |-> "none", params |-> {}]
    ELSE [status |-> "not_found", route |-> 0, handler |-> "none", params |-> {}]

\* ------------------------------------------------------ the workload service
NoResponse ==
    [method |-> "none", path |-> <<>>, status |-> "none", handler |-> "none",
     params |-> {}, table |-> <<>>, failed |-> FALSE]

\* A WorkloadService value exists once the future new() returned has resolved to
\* its Item; the early variant hands the value out before that.
ServiceExists_Early(res) == res \in {"none", "Ok"}

ServiceExists(res) == res = "Ok"

RtInit ==
    /\ svc = "none"
    /\ wanted = <<>>
    /\ inner = <<>>
    /\ newResult = "none"
    /\ newError = "none"
    /\ last = NoResponse

\* WorkloadService::new() is called: construction starts.
BeginNew(routes) ==
    /\ svc = "none"
    /\ svc' = "building"
    /\ wanted' = routes
    /\ UNCHANGED <<inner, newResult, newError, last, wdVars, inVars>>

\* Construction registers the next route, after its handler has been set up.
Register(setupOk) ==
    /\ svc = "building"
    /\ Len(inner) < Len(wanted)
    /\ LET r == wanted[Len(inner) + 1] IN
       IF ~setupOk
       THEN /\ svc' = "failed"
            /\ inner' = <<>>
            /\ newResult' = "Err"
            /\ newError' = "HandlerSetup"
       ELSE IF \E i \in 1..Len(inner) : Conflict(Routes[inner[i]], Routes[r])
       THEN /\ svc' = "failed"
            /\ inner' = <<>>
            /\ newResult' = "Err"
            /\ newError' = "RouteConflict"
       ELSE /\ inner' = Append(inner, r)
            /\ UNCHANGED <<svc, newResult, newError>>
    /\ UNCHANGED <<wanted, last, wdVars, inVars>>

\* Every route is registered: the future resolves to the service.
FinishNew ==
    /\ svc = "building"
    /\ Len(inner) = Len(wanted)
    /\ svc' = "ready"
    /\ newResult' = "Ok"
    /\ UNCHANGED <<wanted, inner, newError, last, wdVars, inVars>>

\* Faulty variant: a handler's failure is answered like a success.
Respond_FailureIsOk(m, handlerOk) ==
    CASE m.status = "not_found" -> "404"
      [] m.status = "method_not_allowed" -> "405"
      [] OTHER -> "200"

\* The response to a request, on the recognizer's answer m.
Respond(m, handlerOk) ==
    CASE m.status = "not_found" -> "404"
      [] m.status = "method_not_allowed" -> "405"
      [] m.status = "match" /\ ~handlerOk -> "500"
      [] OTHER -> "200"

\* One request is dispatched.
Dispatch(method, path, handlerOk) ==
    /\ ServiceExists(newResult)
    /\ LET m == Recognize(inner, method, path) IN
       last' = [method |-> method, path |-> path, status |-> Respond(m, handlerOk),
                handler |-> m.handler, params |-> m.params, table |-> inner,
                failed |-> (m.status = "match" /\ ~handlerOk)]
    /\ UNCHANGED <<svc, wanted, inner, newResult, newError, wdVars, inVars>>

RouterNext ==
    \/ \E routes \in RouteLists : BeginNew(routes)
    \/ \E ok \in BOOLEAN : Register(ok)
    \/ FinishNew
    \/ \E method \in Methods, path \in Paths, ok \in BOOLEAN : Dispatch(method, path, ok)

\* ------------------------------------------------------- daemon initialisation
\* The configuration files that may be named on the command line.
Files == {"a.yaml", "b.yaml"}

\* What a file holds: nothing (it cannot be read), settings that parse, or text
\* that does not parse.
FileKinds == {"missing", "good", "bad"}

\* The entry points: init (not Windows), init (Windows), init_win_svc (Windows).
Entries == {"init", "init_win", "init_win_svc"}

\* The command lines: --config-file absent, naming a file, or malformed; and the
\* --use-event-logger flag.
CommandLines == [config : {"absent", "invalid"} \cup Files, eventLogger : BOOLEAN]

\* create_app: --use-event-logger is an argument of the Windows build only.
CreateApp(e) ==
    IF e = "init" THEN {"config-file"} ELSE {"config-file", "use-event-logger"}

\* get_matches accepts the command line; otherwise clap ends the process.
ArgsAccepted(e, c) ==
    /\ c.config # "invalid"
    /\ c.eventLogger => "use-event-logger" \in CreateApp(e)

\* The statements of each entry point, in order; "matches", "load" and "parse"
\* are the body of init_common.
Plan(e) ==
    CASE e = "init" -> <<"logging", "banner", "matches", "load", "parse", "return">>
      [] e = "init_win" -> <<"matches", "load", "parse", "logging", "banner", "return">>
      [] e = "init_win_svc" -> <<"logging", "banner", "matches", "load", "parse", "return">>

\* The logger an entry point sets up.
Logger(e, c) ==
    CASE e = "init" -> "logging::init"
      [] e = "init_win" ->
            IF c.eventLogger THEN "logging::init_win_log" ELSE "logging::init"
      [] e = "init_win_svc" -> "logging::init_win_log"

\* fs::read_to_string(name)
ReadToString(name, fs) ==
    IF fs[name] = "missing"
    THEN [ok |-> FALSE, src |-> name, kind |-> "missing"]
    ELSE [ok |-> TRUE, src |-> name, kind |-> fs[name]]

\* Faulty variant: a file that cannot be read is replaced by the defaults.
ConfigStr_FallBack(c, fs, dflt) ==
    IF c.config = "absent" \/ ~ReadToString(c.config, fs).ok
    THEN [ok |-> TRUE, src |-> "DEFAULTS", kind |-> dflt]
    ELSE ReadToString(c.config, fs)

\* config_str: the named file's text when --config-file is given, DEFAULTS
\* otherwise.
ConfigStr(c, fs, dflt) ==
    IF c.config = "absent"
    THEN [ok |-> TRUE, src |-> "DEFAULTS", kind |-> dflt]
    ELSE ReadToString(c.config, fs)

\* The files config_str reads.
ConfigReads(c) == IF c.config = "absent" THEN <<>> ELSE <<c.config>>

\* The line init_common logs before it loads the settings.
ConfigLog(c) ==
    IF c.config = "absent" THEN "Using default configuration" ELSE "Using config file"

\* DockerSettings::from_str(&config_str)
FromStr(str) ==
    IF str.kind = "good"
    THEN [ok |-> TRUE, settings |-> [from |-> str.src]]
    ELSE [ok |-> FALSE, settings |-> "none"]

NoReturn == [kind |-> "none", runtime |-> "none", settings |-> "none", error |-> "none"]

\* Err(ErrorKind::Initialize(InitializeErrorReason::LoadSettings))
LoadSettingsError ==
    [kind |-> "Err", runtime |-> "none", settings |-> "none",
     error |-> "Initialize(LoadSettings)"]

\* Ok((DockerModuleRuntime::new(), settings))
Returned(s) ==
    [kind |-> "Ok", runtime |-> "DockerModuleRuntime", settings |-> s, error |-> "none"]

NoStr == [ok |-> FALSE, src |-> "none", kind |-> "none"]

\* No entry point has been called.
AppIdle ==
    /\ entry = "none"
    /\ cli = [config |-> "absent", eventLogger |-> FALSE]
    /\ files = [f \in Files |-> "missing"]
    /\ defaults = "good"
    /\ todo = <<>>
    /\ ilog = <<>>
    /\ reads = <<>>
    /\ configStr = NoStr
    /\ parsed = "none"
    /\ iret = NoReturn

\* An entry point is called, with a command line, a filesystem and the defaults
\* the binary was built with.
AppInit ==
    /\ entry \in Entries
    /\ cli \in CommandLines
    /\ files \in [Files -> FileKinds]
    /\ defaults \in {"good", "bad"}
    /\ todo = Plan(entry)
    /\ ilog = <<>>
    /\ reads = <<>>
    /\ configStr = NoStr
    /\ parsed = "none"
    /\ iret = NoReturn

\* logging::init() or logging::init_win_log()
InitLogging ==
    /\ todo # <<>> /\ Head(todo) = "logging"
    /\ ilog' = Append(ilog, Logger(entry, cli))
    /\ todo' = Tail(todo)
    /\ UNCHANGED <<entry, cli, files, defaults, reads, configStr, parsed, iret,
                   wdVars, rtVars>>

\* log_banner()
LogBanner ==
    /\ todo # <<>> /\ Head(todo) = "banner"
    /\ ilog' = Append(ilog, "banner")
    /\ todo' = Tail(todo)
    /\ UNCHANGED <<entry, cli, files, defaults, reads, configStr, parsed, iret,
                   wdVars, rtVars>>

\* init_common: create_app().get_matches()
GetMatches ==
    /\ todo # <<>> /\ Head(todo) = "matches"
    /\ IF ArgsAccepted(entry, cli)
       THEN /\ todo' = Tail(todo)
            /\ iret' = iret
       ELSE /\ todo' = <<>>
            /\ iret' = [NoReturn EXCEPT !.kind = "Exit"]
    /\ UNCHANGED <<entry, cli, files, defaults, ilog, reads, configStr, parsed,
                   wdVars, rtVars>>

\* init_common: config_str, with .context(LoadSettings)?
LoadConfig ==
    /\ todo # <<>> /\ Head(todo) = "load"
    /\ ilog' = Append(ilog, ConfigLog(cli))
    /\ reads' = reads \o ConfigReads(cli)
    /\ LET str == ConfigStr(cli, files, defaults) IN
       IF str.ok
       THEN /\ configStr' = str
            /\ todo' = Tail(todo)
            /\ iret' = iret
       ELSE /\ configStr' = configStr
            /\ todo' = <<>>
            /\ iret' = LoadSettingsError
    /\ UNCHANGED <<entry, cli, files, defaults, parsed, wdVars, rtVars>>

\* init_common: DockerSettings::from_str(&config_str), with
\* .context(LoadSettings)?
ParseSettings ==
    /\ todo # <<>> /\ Head(todo) = "parse"
    /\ LET s == FromStr(configStr) IN
       IF s.ok
       THEN /\ parsed' = s.settings
            /\ todo' = Tail(todo)
            /\ iret' = iret
       ELSE /\ parsed' = parsed
            /\ todo' = <<>>
            /\ iret' = LoadSettingsError
    /\ UNCHANGED <<entry, cli, files, defaults, ilog, reads, configStr, wdVars, rtVars>>

\* The entry point returns the runtime and the settings.
ReturnPair ==
    /\ todo # <<>> /\ Head(todo) = "return"
    /\ iret' = Returned(parsed)
    /\ todo' = Tail(todo)
    /\ UNCHANGED <<entry, cli, files, defaults, ilog, reads, configStr, parsed,
                   wdVars, rtVars>>

AppNext ==
    \/ InitLogging
    \/ LogBanner
    \/ GetMatches
    \/ LoadConfig
    \/ ParseSettings
    \/ ReturnPair

\* ----------------------------------------------------------- specifications
Init == WdInit /\ RtInit /\ AppIdle

\* The watchdog and its environment.
Spec == Init /\ [][Next]_vars

\* The executor polls a future that was handed to it.
FairSpec == Spec /\ WF_vars(PollRunUntil) /\ WF_vars(PollStartWatchdog)

\* No watchdog has been constructed; the module is running.
RouterInit ==
    /\ Init
    /\ hist = <<"Running">>
    /\ maxRetries = 1

\* The workload service: construction, then dispatch.
SpecRouter == RouterInit /\ [][RouterNext]_vars

\* No watchdog and no workload service has been constructed; an entry point of
\* the daemon is called.
AppStart ==
    /\ WdInit
    /\ hist = <<"Running">>
    /\ maxRetries = 1
    /\ RtInit
    /\ AppInit

\* Daemon initialisation.
SpecApp == AppStart /\ [][AppNext]_vars

\* ------------------------------------------------------------------ claims
\* The module was in state s for the whole execution so far.
Throughout(S) == \A i \in 1..Len(hist) : hist[i] \in S

\* The position of the first call of op in a trace, 0 when there is none.
FirstCall(trace, op) ==
    IF CountOp(trace, op) = 0 THEN 0
    ELSE CHOOSE i \in 1..Len(trace) :
            /\ trace[i] = [ev |-> "call", op |-> op]
            /\ \A j \in 1..(i - 1) : trace[j] # [ev |-> "call", op |-> op]

\* C1: once the shutdown signal has resolved, a poll of the future run_until
\* returned completes it without any further wait, whatever the module state, so
\* run_until terminates; and from the moment the signal has resolved the watchdog
\* issues no further runtime or identity call.
C1_TerminatesOnShutdown ==
    /\ [](fut = "ready" /\ shutdown = "resolved" => RunUntilReady(shutdown))
    /\ ((fut = "ready" /\ shutdown = "resolved") ~> (fut = "done"))
    /\ [][shutdown = "resolved" => calls' = calls]_vars

\* C1 witness: run_until has terminated after the signal resolved, with a module
\* that is not running.
C1_Witness ==
    /\ fut = "done"
    /\ shutdown = "resolved"
    /\ moduleState = "Failed"

\* C2: with a maximum retry count N configured, every attempt failing and no
\* shutdown, run_until ends with a fatal error after exactly N failed attempts.
\* (The code makes no attempt at all, so every attempt it makes fails.)
C2_FatalAfterExactlyN ==
    (fut = "done" /\ shutdown = "pending" /\ Throughout({"NotFound", "Failed"}))
        => (result = "Err" /\ CountOp(calls, "create") = maxRetries)

\* C3: run_until and start_watchdog complete successfully only if the shutdown
\* signal has resolved and been observed, and with an error only if the retry
\* limit is exhausted.
C3_TwoOutcomes ==
    /\ fut = "done" =>
        \/ result = "Ok" /\ shutdown = "resolved" /\ sigPolled
        \/ result = "Err" /\ CountOp(calls, "create") >= maxRetries
    /\ swFut = "done" =>
        \/ swResult = "Ok" /\ shutdown = "resolved" /\ sigPolled
        \/ swResult = "Err" /\ CountOp(calls, "create") >= maxRetries

\* C4: if the module is Running the whole time, the watchdog issues no create call
\* and no start call.
C4_RunningNoCreateStart ==
    Throughout({"Running"}) =>
        (CountOp(calls, "create") = 0 /\ CountOp(calls, "start") = 0)

\* C4 witness: run_until has run to completion on a module that was Running
\* throughout.
C4_Witness ==
    /\ fut = "done"
    /\ Throughout({"Running"})

\* C5: started on a module the runtime reports as NotFound, and not shut down, the
\* watchdog has issued exactly one create and one start call, and the module is
\* Running.
C5_OneCreateOneStart ==
    (fut = "done" /\ shutdown = "pending" /\ hist[1] = "NotFound" /\ Len(hist) = 1)
        => (CountOp(calls, "create") = 1 /\ CountOp(calls, "start") = 1)

\* C6: in every step the watchdog has issued no stop and no remove call, and the
\* step in which run_until (or start_watchdog) exits leaves the module's state as
\* it was.
C6_ExitLeavesModule ==
    [][/\ CountOp(calls', "stop") = 0
       /\ CountOp(calls', "remove") = 0
       /\ (fut = "ready" /\ fut' = "done") => hist' = hist
       /\ (swFut = "ready" /\ swFut' = "done") => hist' = hist]_vars

\* C6 witness: run_until has exited and the module is still running.
C6_Witness ==
    /\ fut = "done"
    /\ result = "Ok"
    /\ moduleState = "Running"

C8_OneCallInFlight == MaxInFlight(calls) <= 1

\* C8 witness: both entry points have run to completion.
C8_Witness ==
    /\ fut = "done"
    /\ swFut = "done"
    /\ MaxInFlight(calls) <= 1

\* The routes of a table, as a set.
Registered(table) == { table[i] : i \in 1..Len(table) }

\* The orders in which the routes of a table can have been registered.
Orders(table) ==
    { s \in [1..Len(table) -> Registered(table)] :
        \A i, j \in 1..Len(table) : i # j => s[i] # s[j] }

C10_MostSpecificWins ==
    svc = "ready" =>
        /\ \A method \in Methods, path \in Paths :
            LET m == Recognize(inner, method, path) IN
            /\ m.status = "match" =>
                \A r \in Registered(inner) \ {m.route} :
                    (Routes[r].method = method /\ Matches(Routes[r].pattern, path))
                        => LitCount(Routes[m.route].pattern) > LitCount(Routes[r].pattern)
            /\ \A other \in Orders(inner) : Recognize(other, method, path) = m
        /\ {1, 2} \subseteq Registered(inner) =>
            Recognize(inner, "GET", <<"modules", "special">>).handler = "special"

\* C10 witness: /modules/{name} was registered before /modules/special and the
\* request GET /modules/special went to the literal route's handler.
C10_Witness ==
    /\ svc = "ready"
    /\ \E i, j \in 1..Len(inner) : i < j /\ inner[i] = 1 /\ inner[j] = 2
    /\ last.method = "GET"
    /\ last.path = <<"modules", "special">>
    /\ last.handler = "special"

\* The positions of the named (parameter) segments of a pattern.
NamedSegments(pattern) == { i \in 1..Len(pattern) : pattern[i].k = "param" }

\* C11: for every route table of a ready service and every (method, path): a match
\* names a registered route of that method whose pattern the path matches segment
\* by segment, carries that route's handler, and maps exactly the named segments
\* of the pattern, each to the path's segment at its place; a path that no
\* registered pattern matches yields not-found. GET /modules/foo/sign yields the
\* sign handler with name = "foo", GET /modules/foo/unknown yields not-found.
C11_MatchResult ==
    svc = "ready" =>
        /\ \A method \in Methods, path \in Paths :
            LET m == Recognize(inner, method, path) IN
            /\ m.status = "match" =>
                LET pat == Routes[m.route].pattern IN
                /\ m.route \in Registered(inner)
                /\ Routes[m.route].method = method
                /\ Len(pat) = Len(path)
                /\ \A i \in 1..Len(pat) :
                      IF pat[i].k = "lit" THEN pat[i].v = path[i] ELSE path[i] # ""
                /\ m.handler = Routes[m.route].handler
                /\ Cardinality(m.params) = Cardinality(NamedSegments(pat))
                /\ \A i \in NamedSegments(pat) : <<pat[i].v, path[i]>> \in m.params
            /\ (\A r \in Registered(inner) : ~Matches(Routes[r].pattern, path))
                  => m.status = "not_found"
            /\ (\E r \in Registered(inner) :
                    Routes[r].method = method /\ Matches(Routes[r].pattern, path))
                  => m.status = "match"
        /\ 3 \in Registered(inner) =>
            /\ Recognize(inner, "GET", <<"modules", "foo", "sign">>).handler = "sign"
            /\ Recognize(inner, "GET", <<"modules", "foo", "sign">>).params
                  = {<<"name", "foo">>}
        /\ Recognize(inner, "GET", <<"modules", "foo", "unknown">>).status = "not_found"

\* C11 witness: with the sign and the cert route registered, GET /modules/foo/sign
\* was answered by the sign handler with name = "foo".
C11_Witness ==
    /\ svc = "ready"
    /\ {3, 4} \subseteq Registered(inner)
    /\ last.method = "GET"
    /\ last.path = <<"modules", "foo", "sign">>
    /\ last.handler = "sign"
    /\ last.params = {<<"name", "foo">>}
    /\ last.status = "200"

\* The step dispatches a request.
Dispatched == last' # last

\* C16: a request that is not found or whose method is not allowed invokes no
\* handler; a handler's failure is answered with a server error, and only that is;
\* the step that dispatches a request leaves the service ready and its route table
\* as it was, so every later request is recognized as before.
C16_DispatchErrorsContained ==
    [][Dispatched =>
        /\ last'.status \in {"404", "405"} => (last'.handler = "none" /\ ~last'.failed)
        /\ last'.failed <=> last'.status = "500"
        /\ last'.status \in {"200", "404", "405", "500"}
        /\ svc' = "ready" /\ svc = "ready"
        /\ ServiceExists(newResult')
        /\ inner' = inner
        /\ \A method \in Methods, path \in Paths :
              Recognize(inner', method, path) = Recognize(inner, method, path)]_vars

\* C16 witness: a handler has failed, the request was answered with a server
\* error, and the service is still ready.
C16_Witness ==
    /\ last.failed
    /\ last.status = "500"
    /\ svc = "ready"
    /\ ServiceExists(newResult)

\* The state of the watchdog instance, in the terms of the state machine: Idle
\* until its future is polled; Reconciling while a runtime or identity call is in
\* flight; Waiting between calls; ShuttingDown once it has completed successfully;
\* Fatal once it has completed with an error.
Phase ==
    IF fut = "done" THEN (IF result = "Err" THEN "Fatal" ELSE "ShuttingDown")
    ELSE IF InFlightAt(calls, Len(calls)) > 0 THEN "Reconciling"
    ELSE IF calls # <<>> THEN "Waiting"
    ELSE "Idle"

\* The transitions of the state machine.
Transitions ==
    { <<"Idle", "Reconciling">>, <<"Reconciling", "Waiting">>,
      <<"Reconciling", "ShuttingDown">>, <<"Reconciling", "Fatal">>,
      <<"Waiting", "Reconciling">>, <<"Waiting", "ShuttingDown">> }

\* C12: the state of the watchdog instance only moves along the transitions of the
\* state machine; ShuttingDown and Fatal are left by none.
C12_StateMachine ==
    [][Phase' # Phase => <<Phase, Phase'>> \in Transitions]_vars

C15_StoppedIsStarted ==
    (fut = "done" /\ shutdown = "pending" /\ hist = <<"Stopped">>)
        => /\ CountOp(calls, "start") = 1
           /\ CountOp(calls, "identity") = 0
           /\ CountOp(calls, "create") = 0

\* C17: the watchdog is a no-op success: a constructed Watchdog holds neither
\* capability; the futures of run_until and start_watchdog complete at their first
\* poll, whatever the signal, and only ever with Ok; the signal is never polled
\* and no runtime or identity call is ever issued.
C17_NoOpSuccess ==
    /\ wd.st # "none" => (wd.runtime = "PhantomData" /\ wd.identity = "PhantomData")
    /\ fut = "ready" => RunUntilReady(shutdown)
    /\ fut = "done" <=> result = "Ok"
    /\ swFut = "done" <=> swResult = "Ok"
    /\ result # "Err" /\ swResult # "Err"
    /\ ~sigPolled
    /\ calls = <<>>

\* C17 witness: both futures have completed with Ok while the signal is
\* unresolved and the module does not exist.
C17_Witness ==
    /\ fut = "done" /\ result = "Ok"
    /\ swFut = "done" /\ swResult = "Ok"
    /\ shutdown = "pending"
    /\ moduleState = "NotFound"

\* The entry point has come to its end: it returned, or the process ended.
AppDone == entry # "none" /\ todo = <<>>

\* What the settings are to be loaded from holds settings that parse.
SourceLoads ==
    IF cli.config = "absent" THEN defaults = "good" ELSE files[cli.config] = "good"

\* C18: settings are loaded all or nothing. Without --config-file no file is read
\* and the settings are those of the defaults; with it, the named file and no
\* other is read. When the entry point has run on an accepted command line, it
\* returned Initialize(LoadSettings), with no runtime and no settings, if the file
\* could not be read or the text did not parse, and (DockerModuleRuntime,
\* settings of that source) otherwise. Outside Windows the logger and the banner
\* precede either result.
C18_LoadSettingsAllOrNothing ==
    /\ cli.config = "absent" => reads = <<>>
    /\ \A i \in 1..Len(reads) : reads[i] = cli.config
    /\ Len(reads) <= 1
    /\ iret.kind = "Ok" =>
        /\ SourceLoads
        /\ iret.runtime = "DockerModuleRuntime"
        /\ iret.settings =
              [from |-> IF cli.config = "absent" THEN "DEFAULTS" ELSE cli.config]
        /\ reads = (IF cli.config = "absent" THEN <<>> ELSE <<cli.config>>)
    /\ iret.kind = "Err" =>
        /\ ~SourceLoads
        /\ iret.error = "Initialize(LoadSettings)"
        /\ iret.runtime = "none"
        /\ iret.settings = "none"
    /\ iret.kind \notin {"Ok"} => (iret.runtime = "none" /\ iret.settings = "none")
    /\ (AppDone /\ ArgsAccepted(entry, cli)) =>
        iret.kind = (IF SourceLoads THEN "Ok" ELSE "Err")
    /\ (entry = "init" /\ iret.kind \in {"Ok", "Err"}) =>
        (Len(ilog) >= 2 /\ ilog[1] = "logging::init" /\ ilog[2] = "banner")

\* C18 witness: outside Windows, --config-file named a file that was read and did
\* not parse; init returned the LoadSettings error after the logger and the
\* banner.
C18_Witness ==
    /\ entry = "init"
    /\ cli.config \in Files
    /\ files[cli.config] = "bad"
    /\ reads = <<cli.config>>
    /\ iret = LoadSettingsError
    /\ ilog[1] = "logging::init" /\ ilog[2] = "banner"

====
